---------------------------- MODULE Spec2Model ----------------------------
(***************************************************************************)
(* A model of wataruY/reader: src/src/reader.py (formatter registry,       *)
(* formatters, loader, content transformer, local-file entry point) and    *)
(* src/src/postlight_parser.py (wrapper of the postlight-parser command    *)
(* line and the extractor entry point).                                    *)
(*                                                                         *)
(* Representation.  A Python string is a sequence of tokens (TLA+ strings);*)
(* a token stands for a run of characters that the code never looks into.  *)
(* A Python value is a record [ty, s, d]: its type name, its text (str,    *)
(* int, datetime) and its items (dict).  A JSON text is a sequence of      *)
(* lexical tokens: the braces, a banner character, a digit, and one token  *)
(* per object member.  The output streams of the external tool are taken   *)
(* as UTF-8 text, so response.stdout.decode / response.stderr.decode give  *)
(* the token sequence the tool wrote.                                      *)
(***************************************************************************)
EXTENDS Integers, Sequences, FiniteSets

VARIABLES
    pc,           \* position of the process: import, args, input, main, format, print, done
    entry,        \* which script runs: "postlight_parser" or "reader"
    argv,         \* the command line: [url, filename, format, body_width]
    args,         \* the namespace parse_args() made of it
    tool,         \* behaviour of the external executable: [exitcode, stdout, stderr]
    stdin_text,   \* what standard input holds
    file,         \* the file args.filename names: [exists, text]
    formatter,    \* Format.formatter: the registry, name -> function
    reglog,       \* history: the functions Format() was applied to, in order
    regerr,       \* history: the exception the last Format() call raised, or ""
    invocations,  \* history: how many times the external executable was run
    obj,          \* the result object (a Python value), or NoResult
    rendered,     \* the string the formatter returned
    callog,       \* history: the outcome of each formatter call, in order
    main_runs,    \* history: how many times main() (the transformer) ran
    stdout,       \* the lines written to standard output
    stderr,       \* the lines written to standard error
    exitcode,     \* <<status>> once the process has ended, Running until then
    exc           \* the uncaught exception that ended the process, or ""

vars == <<pc, entry, argv, args, tool, stdin_text, file, formatter, reglog, regerr,
          invocations, obj, rendered, callog, main_runs, stdout, stderr,
          exitcode, exc>>

-----------------------------------------------------------------------------
(* Bounds of the model *)

\* how many functions are registered after the built-in ones
MaxRegistrations == 3
\* how many formatter calls are applied to one result object
MaxCalls == 3
\* how many banner characters the external tool may write before its JSON
MaxBanner == 1

-----------------------------------------------------------------------------
(* Python values *)

EmptyItems == [k \in {} |-> 0]
PyStr(s) == [ty |-> "str", s |-> s, d |-> EmptyItems]
PyInt(s) == [ty |-> "int", s |-> s, d |-> EmptyItems]
PyBool(s) == [ty |-> "bool", s |-> s, d |-> EmptyItems]
None == [ty |-> "NoneType", s |-> <<>>, d |-> EmptyItems]
DateTime(s) == [ty |-> "datetime", s |-> s, d |-> EmptyItems]
Dict(d) == [ty |-> "dict", s |-> <<>>, d |-> d]
\* no result object exists (yet)
NoResult == [ty |-> "unbound", s |-> <<>>, d |-> EmptyItems]
\* the exit status of a process that has not ended
Running == <<>>

\* d[k] = v on a dict's items
SetItem(d, k, v) == [x \in (DOMAIN d) \cup {k} |-> IF x = k THEN v ELSE d[x]]

\* the order in which the keys of a dict are written out
KeyOrder == <<"title", "author", "url", "date_published", "content",
              "error", "messages", "message", "html", "markdown", "text">>

\* the outcome of a Python call: a value, or an exception
Return(v) == [ok |-> TRUE, val |-> v, exc |-> ""]
Raise(e) == [ok |-> FALSE, val |-> None, exc |-> e]

-----------------------------------------------------------------------------
(* JSON texts *)

Tok(c) == [t |-> c, k |-> "", v |-> None]
Member(k, v) == [t |-> "member", k |-> k, v |-> v]
LBrace == Tok("{")
RBrace == Tok("}")

\* str.find('{'): Python's index of the first '{', -1 when there is none
find_brace(raw) ==
    IF \E i \in 1..Len(raw) : raw[i].t = "{"
    THEN (CHOOSE i \in 1..Len(raw) :
              /\ raw[i].t = "{"
              /\ \A j \in 1..(i-1) : raw[j].t # "{") - 1
    ELSE -1

\* raw[i:] with Python's meaning of a negative index
slice_from(raw, i) ==
    IF i >= 0 THEN SubSeq(raw, i + 1, Len(raw))
    ELSE SubSeq(raw, IF Len(raw) + i + 1 < 1 THEN 1 ELSE Len(raw) + i + 1, Len(raw))

\* the dict of a sequence of members: a repeated key keeps its last value
RECURSIVE members_dict(_)
members_dict(ms) ==
    IF ms = <<>> THEN EmptyItems
    ELSE SetItem(members_dict(SubSeq(ms, 1, Len(ms) - 1)),
                 ms[Len(ms)].k, ms[Len(ms)].v)

\* json.loads: an object, a number, or JSONDecodeError
json_loads(text) ==
    IF Len(text) = 0 THEN Raise("JSONDecodeError")
    ELSE IF text[1].t = "{" THEN
        IF /\ Len(text) >= 2
           /\ text[Len(text)].t = "}"
           /\ \A i \in 2..(Len(text) - 1) : text[i].t = "member"
        THEN Return(Dict(members_dict(SubSeq(text, 2, Len(text) - 1))))
        ELSE Raise("JSONDecodeError")
    ELSE IF \A i \in 1..Len(text) : text[i].t = "7"
    THEN Return(PyInt([i \in 1..Len(text) |-> "7"]))
    ELSE Raise("JSONDecodeError")

-----------------------------------------------------------------------------
(* The formatter registry: class Format *)

\* a function object: its __name__, split at the underscores, and its body
Function(name, body) == [name |-> name, body |-> body]

\* f.__name__.rsplit('_', 1): at most two parts, split at the last underscore
rsplit1(name) ==
    IF Len(name) <= 1 THEN <<name>>
    ELSE <<SubSeq(name, 1, Len(name) - 1), <<name[Len(name)]>>>>

\* Format.__init__, with the bug of keying on the whole name
Format_init_wholename(reg, f) ==
    [ok |-> TRUE, exc |-> "", reg |-> SetItem(reg, f.name, f)]

\* Format.__init__, with the bug of keeping the first registration
Format_init_keepfirst(reg, f) ==
    LET parts == rsplit1(f.name) IN
    IF Len(parts) # 2 THEN [ok |-> FALSE, exc |-> "ValueError", reg |-> reg]
    ELSE IF parts[1] \in DOMAIN reg THEN [ok |-> TRUE, exc |-> "", reg |-> reg]
    ELSE [ok |-> TRUE, exc |-> "", reg |-> SetItem(reg, parts[1], f)]

\* Format.__init__(self, f): key, _ = rsplit; formatter.update({key: f})
Format_init(reg, f) ==
    LET parts == rsplit1(f.name) IN
    IF Len(parts) # 2 THEN [ok |-> FALSE, exc |-> "ValueError", reg |-> reg]
    ELSE [ok |-> TRUE, exc |-> "", reg |-> SetItem(reg, parts[1], f)]

\* the functions reader.py decorates with @Format, in the order of the file
json_format_fn == Function(<<"json", "format">>, "json_format")
md_format_fn == Function(<<"md", "format">>, "md_format")
txt_format_fn == Function(<<"txt", "format">>, "txt_format")
BuiltinFunctions == <<json_format_fn, md_format_fn, txt_format_fn>>

\* the registry after decorating the functions of fs, in order
RECURSIVE register_all(_, _)
register_all(reg, fs) ==
    IF fs = <<>> THEN reg
    ELSE register_all(Format_init(reg, Head(fs)).reg, Tail(fs))

\* Format.formatter = {} (the class attribute)
EmptyRegistry == [k \in {} |-> 0]

-----------------------------------------------------------------------------
(* html2text and html.unescape, as reader.py configures and calls them *)

\* an HTML2Text object after main() has set its options
Converter(width, emphasis, images, links) ==
    [body_width |-> width, ignore_emphasis |-> emphasis,
     ignore_images |-> images, ignore_links |-> links,
     convert_charrefs |-> TRUE]

\* what one token of the HTML source becomes
convert_token(cfg, t) ==
    CASE t \in {"<p>", "</p>"} -> <<>>
      [] t \in {"<b>", "</b>"} -> IF cfg.ignore_emphasis THEN <<>> ELSE <<"**">>
      [] t = "<a>" -> IF cfg.ignore_links THEN <<>> ELSE <<"[">>
      [] t = "</a>" -> IF cfg.ignore_links THEN <<>> ELSE <<"](http://e.com)">>
      [] t = "<img>" -> IF cfg.ignore_images THEN <<>> ELSE <<"![](i.png)">>
      [] t = "&amp;" -> IF cfg.convert_charrefs THEN <<"&">> ELSE <<t>>
      [] t = "&amp;amp;" -> IF cfg.convert_charrefs THEN <<"&amp;">> ELSE <<t>>
      [] OTHER -> <<t>>

RECURSIVE convert_tokens(_, _)
convert_tokens(cfg, html) ==
    IF html = <<>> THEN <<>>
    ELSE convert_token(cfg, Head(html)) \o convert_tokens(cfg, Tail(html))

\* hard wrap: a space becomes a line break once the line holds width tokens
RECURSIVE wrap(_, _, _)
wrap(text, width, col) ==
    IF text = <<>> THEN <<>>
    ELSE IF Head(text) = " " /\ col >= width
         THEN <<"\n">> \o wrap(Tail(text), width, 0)
         ELSE <<Head(text)>> \o wrap(Tail(text), width, col + 1)

\* HTML2Text.handle(html): the converted text, ending the last paragraph
handle(cfg, html) ==
    LET body == convert_tokens(cfg, html) IN
    (IF cfg.body_width.ty = "int" /\ cfg.body_width.n > 0
     THEN wrap(body, cfg.body_width.n, 0) ELSE body) \o <<"\n\n">>

\* html.unescape: a character reference left in the text is resolved
unescape(text) ==
    [i \in 1..Len(text) |->
        CASE text[i] = "&amp;" -> "&"
          [] text[i] = "&amp;amp;" -> "&amp;"
          [] OTHER -> text[i]]

-----------------------------------------------------------------------------
(* reader.main: the content transformer *)

\* main(), with the bug of converting the plain text from the markdown
main_text_from_markdown(result, body_width) ==
    LET text == Converter(body_width, TRUE, TRUE, TRUE)
        markdown == Converter(body_width, FALSE, FALSE, FALSE) IN
    IF result.ty # "dict" THEN Raise("TypeError")
    ELSE IF "content" \notin DOMAIN result.d THEN Raise("KeyError")
    ELSE IF result.d["content"].ty # "str" THEN Raise("AttributeError")
    ELSE LET html == result.d["content"].s
             md == unescape(handle(markdown, html)) IN
         Return(Dict(SetItem(result.d, "content", Dict(
             [k \in {"html", "markdown", "text"} |->
                 CASE k = "html" -> PyStr(html)
                   [] k = "markdown" -> PyStr(md)
                   [] k = "text" -> PyStr(unescape(handle(text, md)))]))))

\* main(result, body_width): result['content'] becomes html, markdown, text
main(result, body_width) ==
    LET text == Converter(body_width, TRUE, TRUE, TRUE)
        markdown == Converter(body_width, FALSE, FALSE, FALSE) IN
    IF result.ty # "dict" THEN Raise("TypeError")
    ELSE IF "content" \notin DOMAIN result.d THEN Raise("KeyError")
    ELSE IF result.d["content"].ty # "str" THEN Raise("AttributeError")
    ELSE LET html == result.d["content"].s IN
         Return(Dict(SetItem(result.d, "content", Dict(
             [k \in {"html", "markdown", "text"} |->
                 CASE k = "html" -> PyStr(html)
                   [] k = "markdown" -> PyStr(unescape(handle(markdown, html)))
                   [] k = "text" -> PyStr(unescape(handle(text, html)))]))))

-----------------------------------------------------------------------------
(* reader.format_date and the three formatters *)

\* the outcome of a call that may also change the object it is given
Outcome(ok, val, e, o) == [ok |-> ok, val |-> val, exc |-> e, obj |-> o]

\* a rendered string: plain text (md, txt) or a JSON text (json)
Text(s) == [kind |-> "text", text |-> s, json |-> <<>>]
JsonText(j) == [kind |-> "json", text |-> <<>>, json |-> j]
NoText == [kind |-> "none", text |-> <<>>, json |-> <<>>]

Months == {"01", "02", "03", "04", "05", "06", "07", "08", "09", "10", "11", "12"}

\* whether a string matches "%Y-%m-%dT%H:%M:%S.%fZ"
matches_format(s) ==
    /\ Len(s) = 14
    /\ s[2] = "-" /\ s[4] = "-" /\ s[6] = "T" /\ s[8] = ":" /\ s[10] = ":"
    /\ s[12] = "." /\ s[14] = "Z"
    /\ s[3] \in Months

\* datetime.strptime(date_string, "%Y-%m-%dT%H:%M:%S.%fZ")
strptime(v) ==
    IF v.ty # "str" THEN Raise("TypeError")
    ELSE IF ~matches_format(v.s) THEN Raise("ValueError")
    ELSE Return(DateTime(<<v.s[1], "-", v.s[3], "-", v.s[5], " ",
                           v.s[7], ":", v.s[9], ":", v.s[11]>>))

\* format_date(obj): date_published, when not None, becomes a datetime
format_date(o) ==
    IF "date_published" \notin DOMAIN o.d \/ o.d["date_published"].ty = "NoneType"
    THEN Outcome(TRUE, None, "", o)
    ELSE LET r == strptime(o.d["date_published"]) IN
         IF r.ok THEN Outcome(TRUE, None, "", Dict(SetItem(o.d, "date_published", r.val)))
         ELSE Outcome(FALSE, None, r.exc, o)

\* str(value), as str.format renders a field
py_str(v) ==
    CASE v.ty = "NoneType" -> <<"None">>
      [] v.ty = "dict" -> <<"{...}">>
      [] OTHER -> v.s

Indent == "    "
EndsLine(t) == t \in {"\n", "  \n", ")\n", "\n\n"}
NotIndent(t) == t # Indent

\* textwrap.dedent: the margin common to all lines is removed
dedent(s) ==
    IF \A i \in 1..(Len(s) - 1) :
           EndsLine(s[i]) => (s[i + 1] = Indent \/ EndsLine(s[i + 1]))
    THEN SelectSeq(s, NotIndent)
    ELSE s

\* whether json.dumps can serialize the value
RECURSIVE serializable(_)
serializable(v) ==
    /\ v.ty # "datetime"
    /\ \A k \in DOMAIN v.d : serializable(v.d[k])

\* the members of a dict, in the order its keys are written out
RECURSIVE members(_, _)
members(d, keys) ==
    IF keys = <<>> THEN <<>>
    ELSE (IF Head(keys) \in DOMAIN d
          THEN <<Member(Head(keys), d[Head(keys)])>> ELSE <<>>)
         \o members(d, Tail(keys))

\* json.dumps(obj, ensure_ascii=False)
json_dumps(v) ==
    IF ~serializable(v) THEN Raise("TypeError")
    ELSE IF v.ty = "dict"
    THEN [ok |-> TRUE, val |-> JsonText(<<LBrace>> \o members(v.d, KeyOrder) \o <<RBrace>>), exc |-> ""]
    ELSE [ok |-> TRUE, val |-> JsonText([i \in 1..Len(v.s) |-> Tok(v.s[i])]), exc |-> ""]

\* json_format(obj)
json_format(o) ==
    LET r == json_dumps(o) IN
    IF r.ok THEN Outcome(TRUE, r.val, "", o) ELSE Outcome(FALSE, NoText, r.exc, o)

\* obj['content'][key]: the bug of indexing where the code uses get
content_index(o, key) ==
    IF "content" \notin DOMAIN o.d THEN Raise("KeyError")
    ELSE IF o.d["content"].ty # "dict" THEN Raise("TypeError")
    ELSE IF key \notin DOMAIN o.d["content"].d THEN Raise("KeyError")
    ELSE Return(o.d["content"].d[key])

\* obj['content'].get(key, ''): the rendering of the content, '' when absent
content_get(o, key) ==
    IF "content" \notin DOMAIN o.d THEN Raise("KeyError")
    ELSE IF o.d["content"].ty # "dict" THEN Raise("AttributeError")
    ELSE IF key \notin DOMAIN o.d["content"].d THEN Return(PyStr(<<>>))
    ELSE Return(o.d["content"].d[key])

\* the template of md_format, filled in from obj
md_template(d) ==
    <<"\n", Indent, "date: ">> \o py_str(d["date_published"]) \o <<"  \n",
      Indent, "author(s): ">> \o py_str(d["author"]) \o <<"  \n",
      Indent, "\n",
      Indent, "# [">> \o py_str(d["title"]) \o <<"](">> \o py_str(d["url"]) \o <<")\n",
      Indent>>

\* the template of txt_format, filled in from obj
txt_template(d) ==
    <<"\n", Indent, "url: ">> \o py_str(d["url"]) \o <<"\n",
      Indent, "date: ">> \o py_str(d["date_published"]) \o <<"\n",
      Indent, "author(s): ">> \o py_str(d["author"]) \o <<"\n",
      Indent, "\n",
      Indent>> \o py_str(d["title"]) \o <<"\n",
      Indent>>

TemplateKeys == {"date_published", "author", "title", "url"}

\* md_format(obj)
md_format(o) ==
    LET fd == format_date(o) IN
    IF ~fd.ok THEN Outcome(FALSE, NoText, fd.exc, fd.obj)
    ELSE IF ~(TemplateKeys \subseteq DOMAIN fd.obj.d)
    THEN Outcome(FALSE, NoText, "KeyError", fd.obj)
    ELSE LET body == content_get(fd.obj, "markdown") IN
         IF ~body.ok THEN Outcome(FALSE, NoText, body.exc, fd.obj)
         ELSE IF body.val.ty # "str" THEN Outcome(FALSE, NoText, "TypeError", fd.obj)
         ELSE Outcome(TRUE, Text(dedent(md_template(fd.obj.d)) \o <<"\n">> \o body.val.s),
                      "", fd.obj)

\* txt_format(obj)
txt_format(o) ==
    LET fd == format_date(o) IN
    IF ~fd.ok THEN Outcome(FALSE, NoText, fd.exc, fd.obj)
    ELSE IF ~(TemplateKeys \subseteq DOMAIN fd.obj.d)
    THEN Outcome(FALSE, NoText, "KeyError", fd.obj)
    ELSE LET body == content_get(fd.obj, "text") IN
         IF ~body.ok THEN Outcome(FALSE, NoText, body.exc, fd.obj)
         ELSE IF body.val.ty # "str" THEN Outcome(FALSE, NoText, "TypeError", fd.obj)
         ELSE Outcome(TRUE, Text(dedent(txt_template(fd.obj.d)) \o <<"\n">> \o body.val.s),
                      "", fd.obj)

\* Format.formatter[name](obj): the call of a registered function
call_formatter(f, o) ==
    CASE f.body = "json_format" -> json_format(o)
      [] f.body = "md_format" -> md_format(o)
      [] f.body = "txt_format" -> txt_format(o)
      [] OTHER -> Outcome(TRUE, Text(<<f.body>>), "", o)

-----------------------------------------------------------------------------
(* reader.load and postlight_parser.postlight_parser *)

\* how a function that may end the process comes back: it returns val,
\* raises exc, or calls sys.exit(status); err holds the lines it printed
\* to sys.stderr, out those it printed to sys.stdout, runs the number of
\* times it ran the external executable
Returned(v, err, runs) ==
    [kind |-> "return", val |-> v, status |-> 0, exc |-> "",
     err |-> err, out |-> <<>>, runs |-> runs]
Raised(e, err, runs) ==
    [kind |-> "raise", val |-> NoResult, status |-> 0, exc |-> e,
     err |-> err, out |-> <<>>, runs |-> runs]
Exited(c, err, runs) ==
    [kind |-> "exit", val |-> NoResult, status |-> c, exc |-> "",
     err |-> err, out |-> <<>>, runs |-> runs]

\* the exit status the operating system keeps of sys.exit(code)
sys_exit(code) == code % 256

\* load, with the bug of going on with an empty result after the diagnostic
load_recovers(filename, stdin, f) ==
    IF filename \notin {"-", "None"} /\ ~f.exists THEN Raised("FileNotFoundError", <<>>, 0)
    ELSE LET r == json_loads(IF filename \in {"-", "None"} THEN stdin ELSE f.text) IN
         IF r.ok THEN Returned(r.val, <<>>, 0)
         ELSE Returned(Dict(EmptyItems),
                       <<<<"failed to load JSON from file: ", filename>>>>, 0)

\* load, with the bug of printing the diagnostic without file=sys.stderr
load_prints_to_stdout(filename, stdin, f) ==
    IF filename \notin {"-", "None"} /\ ~f.exists THEN Raised("FileNotFoundError", <<>>, 0)
    ELSE LET r == json_loads(IF filename \in {"-", "None"} THEN stdin ELSE f.text) IN
         IF r.ok THEN Returned(r.val, <<>>, 0)
         ELSE [Exited(sys_exit(1), <<>>, 0) EXCEPT
                  !.out = <<Text(<<"failed to load JSON from file: ", filename>>)>>]

\* load(filename): the JSON of stdin ("-" or None) or of the file, or exit status 1
load(filename, stdin, f) ==
    IF filename \notin {"-", "None"} /\ ~f.exists THEN Raised("FileNotFoundError", <<>>, 0)
    ELSE LET r == json_loads(IF filename \in {"-", "None"} THEN stdin ELSE f.text) IN
         IF r.ok THEN Returned(r.val, <<>>, 0)
         ELSE Exited(sys_exit(1),
                     <<<<"failed to load JSON from file: ", filename>>>>, 0)

\* postlight_parser, with the bug of sys.exit(1) whatever the exit code
postlight_parser_exit_1(url, response) ==
    IF response.exitcode # 0
    THEN Exited(sys_exit(1),
                <<<<"[ERROR] URL: ", url>>, <<"[ERROR]", " ">> \o response.stderr>>, 1)
    ELSE LET raw == response.stdout
             r == json_loads(slice_from(raw, find_brace(raw))) IN
         IF ~r.ok THEN Raised(r.exc, <<>>, 1)
         ELSE IF r.val.ty # "dict" THEN Raised("TypeError", <<>>, 1)
         ELSE IF "error" \in DOMAIN r.val.d
         THEN IF "messages" \notin DOMAIN r.val.d
              THEN Raised("KeyError", <<<<"[ERROR] URL: ", url>>>>, 1)
              ELSE Exited(sys_exit(1),
                          <<<<"[ERROR] URL: ", url>>,
                            <<"[ERROR]", " ">> \o py_str(r.val.d["messages"])>>, 1)
         ELSE Returned(r.val, <<>>, 1)

\* postlight_parser(url, parser_cli_path)
postlight_parser(url, response) ==
    IF response.exitcode # 0
    THEN Exited(sys_exit(response.exitcode),
                <<<<"[ERROR] URL: ", url>>, <<"[ERROR]", " ">> \o response.stderr>>, 1)
    ELSE LET raw == response.stdout
             r == json_loads(slice_from(raw, find_brace(raw))) IN
         IF ~r.ok THEN Raised(r.exc, <<>>, 1)
         ELSE IF r.val.ty # "dict" THEN Raised("TypeError", <<>>, 1)
         ELSE IF "error" \in DOMAIN r.val.d
         THEN IF "messages" \notin DOMAIN r.val.d
              THEN Raised("KeyError", <<<<"[ERROR] URL: ", url>>>>, 1)
              ELSE Exited(sys_exit(1),
                          <<<<"[ERROR] URL: ", url>>,
                            <<"[ERROR]", " ">> \o py_str(r.val.d["messages"])>>, 1)
         ELSE Returned(r.val, <<>>, 1)

\* what the interpreter writes to sys.stderr for an uncaught exception
Traceback(e) == <<"Traceback (most recent call last):", e>>

-----------------------------------------------------------------------------
(* The inputs of a run *)

\* a key the object does not have
Absent == [ty |-> "absent", s |-> <<>>, d |-> EmptyItems]

\* the dict of the keys whose value is not Absent
dict_of(items) ==
    LET keys == {k \in DOMAIN items : items[k].ty # "absent"} IN
    Dict([k \in keys |-> items[k]])

HtmlSamples ==
    { <<"<p>", "Hi", " ", "<b>", "there", "</b>", "</p>">>,
      <<"<a>", "hi", "</a>", " ", "&amp;", " ", "x">>,
      <<"a", "&amp;amp;", "<img>">>,
      <<>> }

ValidDate == PyStr(<<"2020", "-", "01", "-", "02", "T", "03", ":", "04", ":", "05",
                     ".", "000000", "Z">>)
BadDate == PyStr(<<"2020", "-", "01", "-", "02">>)

\* an extraction result with the given content, date_published and author
article(content, date, author) ==
    dict_of([k \in {"title", "author", "url", "date_published", "content"} |->
        CASE k = "title" -> PyStr(<<"T">>)
          [] k = "url" -> PyStr(<<"http://x">>)
          [] k = "author" -> author
          [] k = "date_published" -> date
          [] k = "content" -> content])

ErrorPayloads ==
    { dict_of([k \in {"error", "messages"} |->
                  IF k = "error" THEN PyBool(<<"true">>) ELSE PyStr(<<"bad url">>)]),
      dict_of([k \in {"error", "message"} |->
                  IF k = "error" THEN PyBool(<<"true">>) ELSE PyStr(<<"failed">>)]),
      dict_of([k \in {"error", "messages", "title"} |->
                  IF k = "error" THEN PyBool(<<"true">>) ELSE None]) }

\* the payloads the external tool writes, or a saved file holds
Payloads ==
    { article(c, dt, au) :
        c \in {Absent, None} \cup {PyStr(h) : h \in HtmlSamples},
        dt \in {Absent, None, ValidDate, BadDate},
        au \in {Absent, None, PyStr(<<"A">>)} }
    \cup { dict_of([k \in {"url", "content"} |-> PyStr(<<"x">>)]) }
    \cup ErrorPayloads

\* the text json.dumps writes for a payload
payload_text(p) == <<LBrace>> \o members(p.d, KeyOrder) \o <<RBrace>>

\* the sequences of at most n tokens of S
RECURSIVE SeqsUpTo(_, _)
SeqsUpTo(S, n) ==
    IF n = 0 THEN {<<>>}
    ELSE LET shorter == SeqsUpTo(S, n - 1) IN
         shorter \cup {Append(q, x) : q \in shorter, x \in S}

\* what precedes the JSON on the tool's stdout: log lines, a prompt
Banners == SeqsUpTo({Tok("x"), Tok("7")}, MaxBanner)

\* the texts a run may read: a payload, with a banner before it, cut short,
\* with text after it; and texts that hold no object at all
InputTexts ==
    { b \o payload_text(p) : b \in Banners, p \in Payloads }
    \cup { SubSeq(payload_text(p), 1, Len(payload_text(p)) - 1) : p \in Payloads }
    \cup { payload_text(p) \o <<Tok("x")>> : p \in ErrorPayloads }
    \cup { <<LBrace, RBrace>> \o payload_text(p) : p \in ErrorPayloads }
    \cup Banners

Width(n) == [ty |-> "int", n |-> n]
NoWidth == [ty |-> "NoneType", n |-> 0]

\* -f: not given (<<>>), a registered name, or another name
FormatOptions == {<<>>, <<"json">>, <<"md">>, <<"txt">>, <<"markdown">>}
WidthOptions == {NoWidth, Width(2)}

\* the external executable: a failure with its stderr, or a success with stdout
ToolBehaviours ==
    { [exitcode |-> c, stdout |-> <<>>, stderr |-> e] :
        c \in {1, 3, 255}, e \in {<<>>, <<"boom">>} }
    \cup { [exitcode |-> 0, stdout |-> t, stderr |-> <<>>] : t \in InputTexts }
NoTool == [exitcode |-> 0, stdout |-> <<>>, stderr |-> <<>>]

\* the file the local-file entry point may be pointed at
Files ==
    { [exists |-> TRUE, text |-> t] : t \in InputTexts }
    \cup { [exists |-> FALSE, text |-> <<>>] }
NoFile == [exists |-> FALSE, text |-> <<>>]
\* what the stream or the file that is not to be read holds
OtherText == payload_text(article(PyStr(<<"other">>), None, PyStr(<<"other">>)))

NoArgs == [url |-> "", filename |-> "", format |-> <<>>, body_width |-> NoWidth]

-----------------------------------------------------------------------------
(* The process *)

\* Naked's muterun_js(parser_cli_path, arguments=url): the executable's response
muterun_js(path, url) == tool

\* the interpreter ends the process on an uncaught exception
Uncaught(e, err) ==
    /\ stderr' = stderr \o err \o <<Traceback(e)>>
    /\ exitcode' = <<1>>
    /\ exc' = e
    /\ pc' = "done"

\* sys.exit(status), after the lines err were printed to sys.stderr
SysExit(status, err) ==
    /\ stderr' = stderr \o err
    /\ exitcode' = <<status>>
    /\ exc' = ""
    /\ pc' = "done"

\* the state every run starts in, before the script's imports
Fresh ==
    /\ pc = "import"
    /\ args = NoArgs
    /\ formatter = EmptyRegistry
    /\ reglog = <<>>
    /\ regerr = ""
    /\ invocations = 0
    /\ rendered = NoText
    /\ callog = <<>>
    /\ main_runs = 0
    /\ stdout = <<>>
    /\ stderr = <<>>
    /\ exitcode = Running
    /\ exc = ""

\* reader.py is imported (or run): the three @Format decorators execute
Import ==
    /\ pc = "import"
    /\ formatter' = register_all(formatter, BuiltinFunctions)
    /\ reglog' = reglog \o BuiltinFunctions
    /\ pc' = "args"
    /\ UNCHANGED <<entry, argv, args, tool, stdin_text, file, regerr, invocations, obj,
                   rendered, callog, main_runs, stdout, stderr, exitcode, exc>>

\* parser.parse_args(): -f must be one of list(Format.formatter), default json
ParseArgs ==
    /\ pc = "args"
    /\ LET fmt == IF argv.format = <<>> THEN <<"json">> ELSE argv.format IN
       IF fmt \in DOMAIN formatter
       THEN /\ args' = [argv EXCEPT !.format = fmt]
            /\ pc' = "input"
            /\ UNCHANGED <<stderr, exitcode, exc>>
       ELSE /\ SysExit(2, <<<<"usage: error: argument -f/--format: invalid choice">>>>)
            /\ UNCHANGED args
    /\ UNCHANGED <<entry, argv, tool, stdin_text, file, formatter, reglog, regerr,
                   invocations, obj, rendered, callog, main_runs, stdout>>

\* how the process goes on after a function that may end it
Continue(out, next) ==
    /\ invocations' = invocations + out.runs
    /\ stdout' = stdout \o out.out
    /\ CASE out.kind = "return" ->
              /\ obj' = out.val
              /\ pc' = next
              /\ stderr' = stderr \o out.err
              /\ UNCHANGED <<exitcode, exc>>
         [] out.kind = "exit" ->
              /\ SysExit(out.status, out.err)
              /\ UNCHANGED obj
         [] out.kind = "raise" ->
              /\ Uncaught(out.exc, out.err)
              /\ UNCHANGED obj

\* postlight_parser.py: postlight_parser(args.url, args.parser_path)
RunPostlightParser ==
    /\ pc = "input"
    /\ entry = "postlight_parser"
    /\ Continue(postlight_parser(args.url, muterun_js("postlight-parser", args.url)), "main")
    /\ UNCHANGED <<entry, argv, args, tool, stdin_text, file, formatter, reglog, regerr,
                   rendered, callog, main_runs>>

\* reader.py: load(args.filename)
RunLoad ==
    /\ pc = "input"
    /\ entry = "reader"
    /\ Continue(load(args.filename, stdin_text, file), "main")
    /\ UNCHANGED <<entry, argv, args, tool, stdin_text, file, formatter, reglog, regerr,
                   rendered, callog, main_runs>>

\* obj = main(result, args.body_width)
RunMain ==
    /\ pc = "main"
    /\ main_runs' = main_runs + 1
    /\ LET r == main(obj, args.body_width) IN
       IF r.ok
       THEN /\ obj' = r.val
            /\ pc' = "format"
            /\ UNCHANGED <<stderr, exitcode, exc>>
       ELSE /\ Uncaught(r.exc, <<>>)
            /\ UNCHANGED obj
    /\ UNCHANGED <<entry, argv, args, tool, stdin_text, file, formatter, reglog, regerr,
                   invocations, rendered, callog, stdout>>

\* Format.formatter[args.format](obj), the argument of print
RunFormat ==
    /\ pc = "format"
    /\ LET r == call_formatter(formatter[args.format], obj) IN
       /\ callog' = Append(callog, [name |-> args.format, before |-> obj,
                                    ok |-> r.ok, exc |-> r.exc, out |-> r.val])
       /\ obj' = r.obj
       /\ IF r.ok
          THEN /\ rendered' = r.val
               /\ pc' = "print"
               /\ UNCHANGED <<stderr, exitcode, exc>>
          ELSE /\ Uncaught(r.exc, <<>>)
               /\ UNCHANGED rendered
    /\ UNCHANGED <<entry, argv, args, tool, stdin_text, file, formatter, reglog, regerr,
                   invocations, main_runs, stdout>>

\* print(...): the rendered string goes to sys.stdout and the script ends
PrintRendered ==
    /\ pc = "print"
    /\ stdout' = Append(stdout, rendered)
    /\ exitcode' = <<0>>
    /\ pc' = "done"
    /\ UNCHANGED <<entry, argv, args, tool, stdin_text, file, formatter, reglog, regerr,
                   invocations, obj, rendered, callog, main_runs, stderr, exc>>

\* one run of either entry point
Init ==
    /\ Fresh
    /\ obj = NoResult
    /\ entry \in {"postlight_parser", "reader"}
    /\ \E f \in FormatOptions, w \in WidthOptions :
         \/ /\ entry = "postlight_parser"
            /\ argv = [url |-> "http://x", filename |-> "", format |-> f, body_width |-> w]
            /\ tool \in ToolBehaviours
            /\ stdin_text = <<>>
            /\ file = NoFile
         \/ /\ entry = "reader"
            /\ argv = [url |-> "", filename |-> "-", format |-> f, body_width |-> w]
            /\ tool = NoTool
            /\ stdin_text \in InputTexts
            /\ file = [exists |-> TRUE, text |-> OtherText]
         \/ /\ entry = "reader"
            /\ argv = [url |-> "", filename |-> "a.json", format |-> f, body_width |-> w]
            /\ tool = NoTool
            /\ stdin_text = OtherText
            /\ file \in Files

Next ==
    \/ Import
    \/ ParseArgs
    \/ RunPostlightParser
    \/ RunLoad
    \/ RunMain
    \/ RunFormat
    \/ PrintRendered

Spec == Init /\ [][Next]_vars

-----------------------------------------------------------------------------
(* Registering further formatters: the registry after reader is imported *)

\* functions a program importing reader may decorate with @Format
PluginFunctions ==
    { Function(<<"json", "format">>, "json_format_2"),
      Function(<<"json", "fmt">>, "json_fmt"),
      Function(<<"html", "format">>, "html_format"),
      Function(<<"html", "format">>, "html_format_2"),
      Function(<<"rich", "text", "format">>, "rich_text_format"),
      Function(<<"plain">>, "plain") }

\* @Format applied to f: Format(f)
Register(f) ==
    /\ pc = "args"
    /\ Len(reglog) < Len(BuiltinFunctions) + MaxRegistrations
    /\ LET r == Format_init(formatter, f) IN
       /\ formatter' = r.reg
       /\ regerr' = r.exc
    /\ reglog' = Append(reglog, f)
    /\ UNCHANGED <<pc, entry, argv, args, tool, stdin_text, file, invocations, obj,
                   rendered, callog, main_runs, stdout, stderr, exitcode, exc>>

InitRegistry ==
    /\ Fresh
    /\ obj = NoResult
    /\ entry = "import"
    /\ argv = NoArgs
    /\ tool = NoTool
    /\ stdin_text = <<>>
    /\ file = NoFile

NextRegistry ==
    \/ Import
    \/ \E f \in PluginFunctions : Register(f)

SpecRegistry == InitRegistry /\ [][NextRegistry]_vars

-----------------------------------------------------------------------------
(* Formatter calls on one result object *)

\* the content bundle main() makes of the first HTML sample
SampleBundle ==
    main(article(PyStr(<<"<p>", "Hi", " ", "<b>", "there", "</b>", "</p>">>),
                 None, None), NoWidth).val.d["content"]

\* a dict without the keys of drop
without(v, drop) == Dict([k \in (DOMAIN v.d) \ drop |-> v.d[k]])

\* the contents a caller may hand to a formatter: none, the HTML string,
\* the bundle, the bundle short of a rendering
FormatContents ==
    { Absent, PyStr(<<"<p>", "Hi", "</p>">>), SampleBundle,
      without(SampleBundle, {"markdown"}), without(SampleBundle, {"text"}),
      without(SampleBundle, {"markdown", "text"}) }

FormatObjects ==
    { article(c, dt, au) :
        c \in FormatContents,
        dt \in {Absent, None, ValidDate, BadDate},
        au \in {Absent, PyStr(<<"A">>)} }

\* Format.formatter[name](obj), called by a program that imported reader
CallFormatter(name) ==
    /\ pc = "args"
    /\ Len(callog) < MaxCalls
    /\ LET r == call_formatter(formatter[name], obj) IN
       /\ callog' = Append(callog, [name |-> name, before |-> obj,
                                    ok |-> r.ok, exc |-> r.exc, out |-> r.val])
       /\ obj' = r.obj
       /\ rendered' = r.val
    /\ UNCHANGED <<pc, entry, argv, args, tool, stdin_text, file, formatter, reglog,
                   regerr, invocations, main_runs, stdout, stderr, exitcode, exc>>

InitFormat ==
    /\ Fresh
    /\ obj \in FormatObjects
    /\ entry = "import"
    /\ argv = NoArgs
    /\ tool = NoTool
    /\ stdin_text = <<>>
    /\ file = NoFile

NextFormat ==
    \/ Import
    \/ \E name \in DOMAIN formatter : CallFormatter(name)

SpecFormat == InitFormat /\ [][NextFormat]_vars

-----------------------------------------------------------------------------
(* What the claims speak of *)

\* a JSON text: an object of members, or a number
IsJsonText(text) ==
    /\ Len(text) >= 1
    /\ \/ /\ Len(text) >= 2
          /\ text[1].t = "{"
          /\ text[Len(text)].t = "}"
          /\ \A i \in 2..(Len(text) - 1) : text[i].t = "member"
       \/ \A i \in 1..Len(text) : text[i].t = "7"

HasBrace(raw) == \E i \in 1..Len(raw) : raw[i].t = "{"

\* the text from the first '{' onward
FromFirstBrace(raw) ==
    LET first == CHOOSE i \in 1..Len(raw) :
                    raw[i].t = "{" /\ \A j \in 1..(i - 1) : raw[j].t # "{"
    IN SubSeq(raw, first, Len(raw))

\* the members of the object a JSON text holds
ObjectKeys(text) == {text[i].k : i \in 2..(Len(text) - 1)}

\* the run got past the command line
Accepted == pc \notin {"import", "args"} /\ args # NoArgs

\* the extractor entry point has called postlight_parser
Extracted == entry = "postlight_parser" /\ Accepted /\ pc # "input"

\* the local-file entry point has called load
Loaded == entry = "reader" /\ Accepted /\ pc # "input"

UrlLine == <<"[ERROR] URL: ", argv.url>>

-----------------------------------------------------------------------------
(* C1: when the external executable exits with a code c other than 0, the  *)
(* executable was run exactly once, standard error holds the line naming   *)
(* the URL and the line with the executable's standard-error text, the     *)
(* process has ended with exit status c, and there is no result object, no *)
(* run of the transformer and no formatter call.                           *)
C1_NonZeroExit ==
    /\ invocations <= 1
    /\ (entry = "postlight_parser" /\ pc = "done" /\ Accepted) => invocations = 1
    /\ (Extracted /\ tool.exitcode # 0) =>
          /\ invocations = 1
          /\ pc = "done"
          /\ exitcode = <<tool.exitcode>>
          /\ stderr = <<UrlLine, <<"[ERROR]", " ">> \o tool.stderr>>
          /\ stdout = <<>>
          /\ obj = NoResult
          /\ main_runs = 0
          /\ callog = <<>>

C1_Witness ==
    /\ Extracted
    /\ tool.exitcode = 3
    /\ tool.stderr = <<"boom">>
    /\ exitcode = <<3>>
    /\ stderr = <<UrlLine, <<"[ERROR]", " ", "boom">>>>

(* C2: when the executable exits with 0 and the payload parsed from its    *)
(* standard output has an error field, standard error holds the URL line   *)
(* and the line with the payload's messages and the process has ended with *)
(* exit status 1; when the payload has no error field, the payload itself  *)
(* is the result object and the process goes on to the transformer.        *)
C2_ErrorPayload ==
    (/\ Extracted
     /\ tool.exitcode = 0
     /\ HasBrace(tool.stdout)
     /\ IsJsonText(FromFirstBrace(tool.stdout))) =>
        LET text == FromFirstBrace(tool.stdout)
            payload == members_dict(SubSeq(text, 2, Len(text) - 1)) IN
        IF "error" \in ObjectKeys(text)
        THEN /\ pc = "done"
             /\ exitcode = <<1>>
             /\ Len(stderr) = 2
             /\ stderr[1] = UrlLine
             /\ stderr[2][1] = "[ERROR]"
             /\ "messages" \in DOMAIN payload =>
                   stderr[2] = <<"[ERROR]", " ">> \o py_str(payload["messages"])
             /\ obj = NoResult
        ELSE (pc = "main" /\ main_runs = 0) =>
                 /\ obj = Dict(payload)
                 /\ exitcode = Running
                 /\ stderr = <<>>

(* C3: when the executable exits with 0 and its standard output holds no   *)
(* '{', or is not a JSON text from the first '{' onward, the process ends  *)
(* as load() ends it: a diagnostic on standard error and sys.exit(1), with *)
(* no exception left uncaught.                                             *)
C3_MalformedStdout ==
    (/\ Extracted
     /\ tool.exitcode = 0
     /\ (~HasBrace(tool.stdout) \/ ~IsJsonText(FromFirstBrace(tool.stdout)))) =>
        /\ pc = "done"
        /\ exitcode = <<1>>
        /\ exc = ""
        /\ stderr # <<>>
        /\ stdout = <<>>

(* C4: load reads standard input when the file name is "-" and the named   *)
(* file otherwise; when what it read is not a JSON text, standard error    *)
(* holds the diagnostic naming the source, the process has ended with exit *)
(* status 1 by sys.exit, and there is no result object.                    *)
C4_LoadMalformed ==
    LET read == IF argv.filename = "-" THEN stdin_text ELSE file.text
        readable == argv.filename = "-" \/ file.exists IN
    (Loaded /\ readable) =>
        IF IsJsonText(read)
        THEN /\ exitcode # <<1>> \/ exc # ""
             /\ stderr = <<>> \/ exc # ""
             /\ (pc = "main" /\ main_runs = 0 /\ read[1].t = "{") =>
                    obj = Dict(members_dict(SubSeq(read, 2, Len(read) - 1)))
        ELSE /\ pc = "done"
             /\ exitcode = <<1>>
             /\ exc = ""
             /\ stderr = <<<<"failed to load JSON from file: ", argv.filename>>>>
             /\ stdout = <<>>
             /\ obj = NoResult
             /\ main_runs = 0
             /\ callog = <<>>

C4_Witness ==
    /\ Loaded
    /\ argv.filename = "a.json"
    /\ file.exists
    /\ Len(file.text) > 2
    /\ ~IsJsonText(file.text)
    /\ exitcode = <<1>>
    /\ stderr = <<<<"failed to load JSON from file: ", "a.json">>>>

(* C5: standard output is written at most once, with the rendered string,  *)
(* and only by a run that ends with exit status 0; a run that ends with    *)
(* another status has written nothing to standard output and has written   *)
(* its diagnostics to standard error.                                      *)
C5_StdoutOnlyOnSuccess ==
    /\ Len(stdout) <= 1
    /\ stdout # <<>> =>
          /\ pc = "done"
          /\ exitcode = <<0>>
          /\ rendered.kind # "none"
          /\ stdout = <<rendered>>
          /\ callog # <<>>
          /\ callog[Len(callog)].ok
          /\ callog[Len(callog)].out = rendered
    /\ (pc = "done" /\ exitcode # <<0>>) =>
          /\ stdout = <<>>
          /\ stderr # <<>>
    /\ pc = "done" => exitcode # Running

\* a failure at the last step before printing: a template field is missing
C5_Witness ==
    /\ pc = "done"
    /\ exc = "KeyError"
    /\ main_runs = 1
    /\ Len(callog) = 1
    /\ ~callog[1].ok
    /\ exitcode = <<1>>
    /\ stdout = <<>>

(* C6, as amended: once reader is imported the registry holds exactly the  *)
(* names json, md and txt, each bound to the function whose own name is    *)
(* that name followed by _format; -f accepts exactly these names and, when *)
(* not given, stands for json.                                             *)
RegisteredNames == {<<"json">>, <<"md">>, <<"txt">>}

C6_BuiltinNames ==
    pc # "import" =>
        /\ DOMAIN formatter = RegisteredNames
        /\ \A k \in DOMAIN formatter :
              /\ formatter[k].name = k \o <<"format">>
              /\ formatter[k] \in {BuiltinFunctions[i] : i \in 1..Len(BuiltinFunctions)}
        /\ pc # "args" =>
              /\ Accepted <=> argv.format \in RegisteredNames \cup {<<>>}
              /\ Accepted => args.format \in RegisteredNames
              /\ (Accepted /\ argv.format = <<>>) => args.format = <<"json">>
              /\ (Accepted /\ argv.format # <<>>) => args.format = argv.format
              /\ ~Accepted => (pc = "done" /\ exitcode = <<2>>)

C6_Witness ==
    /\ pc = "done"
    /\ argv.format = <<"txt">>
    /\ args.format = <<"txt">>
    /\ callog # <<>>
    /\ callog[1].name = <<"txt">>
    /\ formatter[<<"txt">>].body = "txt_format"
    /\ exitcode = <<0>>

(* C6, as stated: once reader is imported the registry holds the names     *)
(* json, markdown and text, and -f accepts exactly these names.            *)
ClaimedNames == {<<"json">>, <<"markdown">>, <<"text">>}

C6_ClaimedNames ==
    pc # "import" =>
        /\ DOMAIN formatter = ClaimedNames
        /\ pc # "args" => (Accepted <=> argv.format \in ClaimedNames \cup {<<>>})

(* C7: the registry binds each derived name to the function registered     *)
(* last under it, and registering a function under a name already bound    *)
(* raises nothing, binds the name to the new function, and changes neither *)
(* the number of entries nor any other entry.                              *)
Registrable(f) == Len(f.name) >= 2
DerivedName(f) == SubSeq(f.name, 1, Len(f.name) - 1)

C7_LastRegistrationWins ==
    /\ DOMAIN formatter =
          {DerivedName(reglog[i]) : i \in {j \in 1..Len(reglog) : Registrable(reglog[j])}}
    /\ \A k \in DOMAIN formatter :
          \E i \in 1..Len(reglog) :
              /\ Registrable(reglog[i])
              /\ DerivedName(reglog[i]) = k
              /\ formatter[k] = reglog[i]
              /\ \A j \in (i + 1)..Len(reglog) :
                    Registrable(reglog[j]) => DerivedName(reglog[j]) # k

C7_OverwriteStep ==
    \A f \in PluginFunctions :
        (/\ reglog' = Append(reglog, f)
         /\ Registrable(f)
         /\ DerivedName(f) \in DOMAIN formatter) =>
            /\ regerr' = ""
            /\ formatter'[DerivedName(f)] = f
            /\ DOMAIN formatter' = DOMAIN formatter
            /\ Cardinality(DOMAIN formatter') = Cardinality(DOMAIN formatter)
            /\ \A k \in DOMAIN formatter \ {DerivedName(f)} : formatter'[k] = formatter[k]

\* C7: in every state the last registration under a name is the one bound,
\* and every registration under a bound name replaces that entry alone
C7_Overwrite == []C7_LastRegistrationWins /\ [][C7_OverwriteStep]_vars

\* json_fmt has replaced json_format under json, and html_format_2 another plugin
C7_Witness ==
    /\ Len(reglog) = Len(BuiltinFunctions) + 3
    /\ regerr = ""
    /\ formatter[<<"json">>].body = "json_fmt"
    /\ reglog[Len(reglog)].body = "json_fmt"
    /\ <<"html">> \in DOMAIN formatter
    /\ Cardinality(DOMAIN formatter) = 4

(* C8: main() replaces content by a bundle with exactly the fields html,   *)
(* markdown and text, where html is the content string it was given and    *)
(* markdown and text are the two conversions of that same string, leaves   *)
(* every other key as it was, and does so for every result whose content   *)
(* is a string, whatever the body width.                                   *)
C8_TransformStep ==
    (pc = "main" /\ pc' # "main") =>
        /\ (obj.ty = "dict" /\ "content" \in DOMAIN obj.d /\ obj.d["content"].ty = "str")
              <=> pc' = "format"
        /\ pc' = "format" =>
              LET html == obj.d["content"]
                  bundle == obj'.d["content"]
                  w == args.body_width IN
              /\ obj'.ty = "dict"
              /\ DOMAIN obj'.d = DOMAIN obj.d
              /\ \A k \in (DOMAIN obj.d) \ {"content"} : obj'.d[k] = obj.d[k]
              /\ bundle.ty = "dict"
              /\ DOMAIN bundle.d = {"html", "markdown", "text"}
              /\ bundle.d["html"] = html
              /\ bundle.d["markdown"] =
                    PyStr(unescape(handle(Converter(w, FALSE, FALSE, FALSE), html.s)))
              /\ bundle.d["text"] =
                    PyStr(unescape(handle(Converter(w, TRUE, TRUE, TRUE), html.s)))

\* C8: every step of main() is a step that replaces content by the bundle
\* of the string it was given and changes nothing else
C8_Transform == [][C8_TransformStep]_vars

\* the transformer has run on HTML with markup and a character reference
C8_Witness ==
    /\ pc = "format"
    /\ main_runs = 1
    /\ args.body_width = Width(2)
    /\ obj.d["content"].d["html"] = PyStr(<<"<a>", "hi", "</a>", " ", "&amp;", " ", "x">>)
    /\ obj.d["content"].d["markdown"].s # obj.d["content"].d["text"].s
    /\ "title" \in DOMAIN obj.d

(* C9: formatter calls applied one after another to the same transformed   *)
(* result object, which carries a valid date_published and every template  *)
(* field, all return a string.                                             *)
C9_EveryCallReturns ==
    (/\ callog # <<>>
     /\ LET first == callog[1].before IN
        /\ TemplateKeys \subseteq DOMAIN first.d
        /\ first.d["date_published"] = ValidDate
        /\ "content" \in DOMAIN first.d
        /\ first.d["content"] = SampleBundle) =>
        \A i \in 1..Len(callog) : callog[i].ok /\ callog[i].out.kind # "none"

(* C10, as amended: for a result object with title, author, url and a      *)
(* date_published that is null or in the format of the template, the md    *)
(* and txt formatters return the metadata block and title followed by the  *)
(* markdown / text rendering of content when content is a mapping, with    *)
(* the empty string for a rendering the mapping lacks; when the content    *)
(* key is missing they raise KeyError.                                     *)
RenderingOf(name) == IF name = <<"md">> THEN "markdown" ELSE "text"
LastLineOf(name) == IF name = <<"md">> THEN ")\n" ELSE "\n"

\* call i is a call of md or txt on an object the templates can be filled from
TemplateCall(i) ==
    /\ callog[i].name \in {<<"md">>, <<"txt">>}
    /\ TemplateKeys \subseteq DOMAIN callog[i].before.d
    /\ callog[i].before.d["date_published"] \in {None, ValidDate}

\* the string returned is the filled-in template, a line break, and body
HeaderThen(i, body) ==
    LET text == callog[i].out.text
        n == Len(text) - Len(body) IN
    /\ callog[i].ok
    /\ callog[i].out.kind = "text"
    /\ n >= 3
    /\ SubSeq(text, n + 1, Len(text)) = body
    /\ text[n] = "\n"
    /\ text[n - 1] = LastLineOf(callog[i].name)
    /\ \E j \in 1..(n - 1) : text[j] = "T"
    /\ \E j \in 1..(n - 1) : text[j] = "http://x"
    /\ \E j \in 1..(n - 1) : text[j] = "author(s): " /\ text[j + 1] = "A"

C10_AbsentRendering ==
    \A i \in 1..Len(callog) :
        TemplateCall(i) =>
            LET before == callog[i].before
                field == RenderingOf(callog[i].name) IN
            IF "content" \notin DOMAIN before.d
            THEN ~callog[i].ok /\ callog[i].exc = "KeyError"
            ELSE IF before.d["content"].ty # "dict"
            THEN ~callog[i].ok
            ELSE IF field \in DOMAIN before.d["content"].d
            THEN HeaderThen(i, before.d["content"].d[field].s)
            ELSE HeaderThen(i, <<>>)

\* txt was called on a bundle without text, and returned
C10_Witness ==
    /\ Len(callog) >= 1
    /\ TemplateCall(1)
    /\ callog[1].name = <<"txt">>
    /\ "content" \in DOMAIN callog[1].before.d
    /\ callog[1].before.d["content"].ty = "dict"
    /\ "text" \notin DOMAIN callog[1].before.d["content"].d
    /\ callog[1].ok
    /\ callog[1].out.text[Len(callog[1].out.text)] = "\n"

(* C10, as stated: with the content key missing, or content lacking the    *)
(* rendering, md and txt use the empty string for the body and return.     *)
C10_MissingContentReturns ==
    \A i \in 1..Len(callog) :
        (/\ TemplateCall(i)
         /\ \/ "content" \notin DOMAIN callog[i].before.d
            \/ /\ callog[i].before.d["content"].ty = "dict"
               /\ RenderingOf(callog[i].name) \notin DOMAIN callog[i].before.d["content"].d) =>
            HeaderThen(i, <<>>)

=============================================================================
